---- MODULE Spec2Model ----
(***************************************************************************)
(* Lifecycle of the genesyscloud_simple_routing_queue resource:            *)
(* createSimpleRoutingQueue, readSimpleRoutingQueue,                       *)
(* updateSimpleRoutingQueue and deleteSimpleRoutingQueue of                *)
(* resource_genesyscloud_simple_routing_queue.go, each remote call of the  *)
(* proxy answered by an arbitrary remote.  Time is counted in seconds.     *)
(***************************************************************************)
EXTENDS Integers, Sequences, FiniteSets, TLC

\* ---------------------------------------------------------------- bounds
\* lifecycle operations the caller issues on one ResourceData
MaxOps == 3
\* shortest duration of one remote read, in seconds; a read takes one or two steps
LatencyStep == 5
Latencies == {LatencyStep, 2 * LatencyStep}

\* ------------------------------------------------------ program constants
\* time.Sleep(5 * time.Second) before the delete confirmation poll
GracePeriod == 5
\* gcloud.WithRetries(ctx, 30*time.Second, ...) of the delete confirmation poll
DeleteCeiling == 30
\* ceiling of gcloud.WithRetriesForRead: shorter than the deletion ceiling
ReadCeiling == 15

\* ------------------------------------------------------------ value sets
NoId == "NoId"
Ids == {"Q-1", "Q-2"}
Absent == "absent"
Names == {"Support", "Sales"}
CallingPartyNames == {"Acme", "Beta"}
Bools == {"true", "false"}

\* the attributes the caller declares (d.Get of the three schema fields)
DesiredSets == [name : Names, calling_party_name : CallingPartyNames,
                enable_transcription : Bools]

\* platformclientv2.Queue as returned by getRoutingQueue: every field a pointer
Queues == [Name : Names \cup {Absent},
           CallingPartyName : CallingPartyNames \cup {Absent},
           EnableTranscription : Bools \cup {Absent}]
NoQueue == [Name |-> Absent, CallingPartyName |-> Absent, EnableTranscription |-> Absent]

\* (currentQueue, respCode, err) of proxy.getRoutingQueue
ReadResponses ==
    [queue : Queues, respCode : {200}, err : {FALSE}]
      \cup [queue : {NoQueue}, respCode : {404, 500}, err : {TRUE}]

\* (queueResp.Id, err) of proxy.createRoutingQueue
CreateResponses == [id : Ids, err : {FALSE}] \cup [id : {NoId}, err : {TRUE}]

\* err of proxy.updateRoutingQueue and proxy.deleteRoutingQueue
MutateResponses == [err : BOOLEAN]

VARIABLES
    d,          \* schema.ResourceData: id and the three attributes
    desired,    \* the caller's declared attributes
    op,         \* entry point in progress or just returned
    pc,         \* position inside the entry point
    result,     \* what the entry point returned
    errKind,    \* which failure it returned
    lastReason, \* reason of the last retryable outcome of the poll
    elapsed,    \* seconds the current poll has run
    slept,      \* seconds slept before the delete confirmation poll
    trace,      \* remote calls issued by the entry point in progress
    observed,   \* payload of the last successful remote read
    cancelled,  \* the enclosing context is done
    opsDone,    \* entry points invoked so far
    gone        \* identities a Delete has confirmed non-existent

vars == <<d, desired, op, pc, result, errKind, lastReason, elapsed, slept,
          trace, observed, cancelled, opsDone, gone>>

\* ------------------------------------------------------------- helpers
\* gcloud.IsStatus404ByInt(respCode)
IsStatus404ByInt(respCode) == respCode = 404

\* resourcedata.SetNillableValue(d, key, value): an absent value leaves d alone
SetNillableValue(rd, key, value) ==
    IF value = Absent THEN rd ELSE [rd EXCEPT ![key] = value]

\* d.Set(key, value)
Set(rd, key, value) == [rd EXCEPT ![key] = value]

Attrs(rd) == [name |-> rd.name, calling_party_name |-> rd.calling_party_name,
              enable_transcription |-> rd.enable_transcription]

\* cc.CheckState(): the record written by this read must agree with what the
\* caller declared, otherwise the read is retried
CheckState(want, rd) ==
    IF Attrs(rd) = want
    THEN [kind |-> "success", reason |-> "none"]
    ELSE [kind |-> "retryable", reason |-> "inconsistent"]

\* SetQueueValues without the d.Set of "name"
SetQueueValues_SkipsName(rd, currentQueue) ==
    LET d2 == SetNillableValue(rd, "calling_party_name", currentQueue.CallingPartyName)
    IN  SetNillableValue(d2, "enable_transcription", currentQueue.EnableTranscription)

\* SetQueueValues that writes the name the record held before into
\* calling_party_name
SetQueueValues_StaleName(rd, currentQueue) ==
    LET d1 == Set(rd, "name", currentQueue.Name)
        d2 == Set(d1, "calling_party_name", rd.name)
    IN  SetNillableValue(d2, "enable_transcription", currentQueue.EnableTranscription)

\* lines 91-93: copy the values of the Queue into the ResourceData
SetQueueValues(rd, currentQueue) ==
    LET d1 == Set(rd, "name", currentQueue.Name)
        d2 == SetNillableValue(d1, "calling_party_name", currentQueue.CallingPartyName)
    IN  SetNillableValue(d2, "enable_transcription", currentQueue.EnableTranscription)

\* ReadCheck that takes a not-found read for a finished read
ReadCheck_NotFoundIsSuccess(rd, want, resp) ==
    IF resp.err
    THEN IF IsStatus404ByInt(resp.respCode)
         THEN [kind |-> "success", reason |-> "none", rd |-> rd]
         ELSE [kind |-> "terminal", reason |-> "read_failed", rd |-> rd]
    ELSE IF resp.queue.Name = Absent
         THEN [kind |-> "panic", reason |-> "nil_name", rd |-> rd]
         ELSE LET rd2 == SetQueueValues(rd, resp.queue)
                  cs  == CheckState(want, rd2)
              IN  [kind |-> cs.kind, reason |-> cs.reason, rd |-> rd2]

\* ReadCheck that gives up on the first not-found read
ReadCheck_NotFoundIsTerminal(rd, want, resp) ==
    IF resp.err
    THEN [kind |-> "terminal", reason |-> "read_failed", rd |-> rd]
    ELSE IF resp.queue.Name = Absent
         THEN [kind |-> "panic", reason |-> "nil_name", rd |-> rd]
         ELSE LET rd2 == SetQueueValues(rd, resp.queue)
                  cs  == CheckState(want, rd2)
              IN  [kind |-> cs.kind, reason |-> cs.reason, rd |-> rd2]

\* ReadCheck that retries every read error, whatever its status
ReadCheck_AllErrorsRetryable(rd, want, resp) ==
    IF resp.err
    THEN [kind |-> "retryable", reason |-> "read_notfound", rd |-> rd]
    ELSE IF resp.queue.Name = Absent
         THEN [kind |-> "panic", reason |-> "nil_name", rd |-> rd]
         ELSE LET rd2 == SetQueueValues(rd, resp.queue)
                  cs  == CheckState(want, rd2)
              IN  [kind |-> cs.kind, reason |-> cs.reason, rd |-> rd2]

\* ReadCheck that drops the outcome of cc.CheckState()
ReadCheck_IgnoresCheckState(rd, want, resp) ==
    IF resp.err
    THEN IF IsStatus404ByInt(resp.respCode)
         THEN [kind |-> "retryable", reason |-> "read_notfound", rd |-> rd]
         ELSE [kind |-> "terminal", reason |-> "read_failed", rd |-> rd]
    ELSE IF resp.queue.Name = Absent
         THEN [kind |-> "panic", reason |-> "nil_name", rd |-> rd]
         ELSE [kind |-> "success", reason |-> "none",
               rd |-> SetQueueValues(rd, resp.queue)]

\* ReadCheck that clears the identity when the read returns not-found
ReadCheck_NotFoundClearsId(rd, want, resp) ==
    IF resp.err
    THEN IF IsStatus404ByInt(resp.respCode)
         THEN [kind |-> "retryable", reason |-> "read_notfound",
               rd |-> [rd EXCEPT !.id = NoId]]
         ELSE [kind |-> "terminal", reason |-> "read_failed", rd |-> rd]
    ELSE IF resp.queue.Name = Absent
         THEN [kind |-> "panic", reason |-> "nil_name", rd |-> rd]
         ELSE LET rd2 == SetQueueValues(rd, resp.queue)
                  cs  == CheckState(want, rd2)
              IN  [kind |-> cs.kind, reason |-> cs.reason, rd |-> rd2]

\* the function readSimpleRoutingQueue hands to WithRetriesForRead
ReadCheck(rd, want, resp) ==
    IF resp.err
    THEN IF IsStatus404ByInt(resp.respCode)
         THEN [kind |-> "retryable", reason |-> "read_notfound", rd |-> rd]
         ELSE [kind |-> "terminal", reason |-> "read_failed", rd |-> rd]
    ELSE IF resp.queue.Name = Absent
         THEN [kind |-> "panic", reason |-> "nil_name", rd |-> rd]
         ELSE LET rd2 == SetQueueValues(rd, resp.queue)
                  cs  == CheckState(want, rd2)
              IN  [kind |-> cs.kind, reason |-> cs.reason, rd |-> rd2]

\* DeleteCheck that takes a queue that is still there for a deleted one
DeleteCheck_PresentIsSuccess(resp) ==
    IF ~resp.err \/ IsStatus404ByInt(resp.respCode)
    THEN [kind |-> "success", reason |-> "none"]
    ELSE [kind |-> "retryable", reason |-> "still_exists"]

\* the function deleteSimpleRoutingQueue hands to WithRetries
DeleteCheck(resp) ==
    IF ~resp.err
    THEN [kind |-> "terminal", reason |-> "delete_error"]
    ELSE IF IsStatus404ByInt(resp.respCode)
         THEN [kind |-> "success", reason |-> "none"]
         ELSE [kind |-> "retryable", reason |-> "still_exists"]

\* Engine without the ceiling: a retryable outcome is always retried
Engine_NoCeiling(outcome, t, ceiling) ==
    CASE outcome.kind = "success"  -> [pc |-> "done", result |-> "success", errKind |-> "none"]
      [] outcome.kind = "terminal" -> [pc |-> "done", result |-> "failure", errKind |-> outcome.reason]
      [] outcome.kind = "panic"    -> [pc |-> "done", result |-> "panic", errKind |-> outcome.reason]
      [] OTHER -> [pc |-> "poll", result |-> "none", errKind |-> "none"]

\* gcloud.WithRetries: what the poll does with the outcome of one check that
\* ended at time t of a poll bounded by ceiling
Engine(outcome, t, ceiling) ==
    CASE outcome.kind = "success"  -> [pc |-> "done", result |-> "success", errKind |-> "none"]
      [] outcome.kind = "terminal" -> [pc |-> "done", result |-> "failure", errKind |-> outcome.reason]
      [] outcome.kind = "panic"    -> [pc |-> "done", result |-> "panic", errKind |-> outcome.reason]
      [] OTHER -> IF t >= ceiling
                  THEN [pc |-> "done", result |-> "failure", errKind |-> "timeout"]
                  ELSE [pc |-> "poll", result |-> "none", errKind |-> "none"]

Status(resp) == IF ~resp.err THEN "ok"
                ELSE IF IsStatus404ByInt(resp.respCode) THEN "notfound" ELSE "error"

\* one remote call: the identity it was keyed by, how it ended, the identity it
\* returned (create) and the enable_transcription it reported (read)
Call(kind, id, status, ret, et) ==
    [call |-> kind, id |-> id, status |-> status, ret |-> ret, et |-> et]

MutateStatus(resp) == IF resp.err THEN "error" ELSE "ok"

\* a poll that pushes the local attributes to the remote instead of reading
ReadCall_PushesLocal(id, resp) ==
    Call("update", id, Status(resp), NoId, resp.queue.EnableTranscription)

\* proxy.getRoutingQueue(ctx, d.Id()) of lines 78 and 146
ReadCall(id, resp) ==
    Call("read", id, Status(resp), NoId, resp.queue.EnableTranscription)

\* AfterCreate without the error check: the read follows a failed create
AfterCreate_IgnoresErr(rd, resp) ==
    [pc |-> "poll", result |-> "none", errKind |-> "none", rd |-> rd]

\* AfterCreate without d.SetId
AfterCreate_NoSetId(rd, resp) ==
    IF resp.err
    THEN [pc |-> "done", result |-> "failure", errKind |-> "create_failed", rd |-> rd]
    ELSE [pc |-> "poll", result |-> "none", errKind |-> "none", rd |-> rd]

\* lines 55-63: the error check after proxy.createRoutingQueue and d.SetId
AfterCreate(rd, resp) ==
    IF resp.err
    THEN [pc |-> "done", result |-> "failure", errKind |-> "create_failed", rd |-> rd]
    ELSE [pc |-> "poll", result |-> "none", errKind |-> "none",
          rd |-> [rd EXCEPT !.id = resp.id]]

\* AfterUpdate without the error check: the read follows a failed update
AfterUpdate_IgnoresErr(resp) ==
    [pc |-> "poll", result |-> "none", errKind |-> "none"]

\* lines 121-126: the error check after proxy.updateRoutingQueue
AfterUpdate(resp) ==
    IF resp.err
    THEN [pc |-> "done", result |-> "failure", errKind |-> "update_failed"]
    ELSE [pc |-> "poll", result |-> "none", errKind |-> "none"]

\* lines 138-144: the error check after proxy.deleteRoutingQueue
AfterDelete(resp) ==
    IF resp.err
    THEN [pc |-> "done", result |-> "failure", errKind |-> "delete_failed"]
    ELSE [pc |-> "grace", result |-> "none", errKind |-> "none"]

\* what the %s of the message of a failure is filled with: lines 57 and 123
\* pass name, lines 81, 83, 140, 149 and 157 pass d.Id(); a timeout carries
\* the message of the last retryable outcome
ErrSubject(kind, reason) ==
    CASE kind \in {"create_failed", "update_failed"} -> "name"
      [] kind \in {"delete_failed", "read_failed", "delete_error"} -> "id"
      [] kind = "timeout" /\ reason \in {"read_notfound", "still_exists"} -> "id"
      [] OTHER -> "unknown"

\* the operation the message of a failure names: "failed to create / update /
\* delete / read queue", "error deleting routing queue"; "routing queue %s
\* still exists" names none
ErrOp(kind, reason) ==
    CASE kind = "create_failed" -> "create"
      [] kind = "update_failed" -> "update"
      [] kind \in {"delete_failed", "delete_error"} -> "delete"
      [] kind = "read_failed" -> "read"
      [] kind = "timeout" /\ reason = "read_notfound" -> "read"
      [] kind = "timeout" /\ reason = "still_exists" -> "none"
      [] OTHER -> "unknown"

\* Ready of a caller that keeps using a ResourceData whose Delete succeeded
Ready_AfterDelete == pc \in {"idle", "done"} /\ opsDone < MaxOps
                     /\ result # "panic"

\* the caller may invoke an entry point: the previous one has returned (a
\* panic ends the process) and no Delete has succeeded
Ready == pc \in {"idle", "done"} /\ opsDone < MaxOps
         /\ result # "panic"
         /\ ~(op = "delete" /\ result = "success")

\* ---------------------------------------------------------------- Init
Init ==
    /\ desired \in DesiredSets
    /\ d = [id |-> NoId, name |-> desired.name,
            calling_party_name |-> desired.calling_party_name,
            enable_transcription |-> desired.enable_transcription]
    /\ op = "none" /\ pc = "idle" /\ result = "none" /\ errKind = "none"
    /\ lastReason = "none" /\ elapsed = 0 /\ slept = 0
    /\ trace = <<>> /\ observed = NoQueue
    /\ cancelled = FALSE /\ opsDone = 0
    /\ gone = {}

\* ------------------------------------------------------------- actions
\* createSimpleRoutingQueue up to the call of readSimpleRoutingQueue
createSimpleRoutingQueue ==
    /\ Ready /\ d.id = NoId
    /\ \E resp \in CreateResponses :
        LET nxt == AfterCreate(d, resp)
        IN  /\ op' = "create" /\ opsDone' = opsDone + 1
            /\ trace' = <<Call("create", NoId, MutateStatus(resp), resp.id, Absent)>>
            /\ pc' = nxt.pc /\ result' = nxt.result /\ errKind' = nxt.errKind
            /\ d' = nxt.rd
    /\ lastReason' = "none" /\ elapsed' = 0 /\ slept' = 0
    /\ observed' = NoQueue /\ cancelled' = FALSE
    /\ UNCHANGED desired
    /\ UNCHANGED gone

\* readSimpleRoutingQueue called by the caller: enters the poll
readSimpleRoutingQueue ==
    /\ Ready /\ d.id # NoId
    /\ op' = "read" /\ opsDone' = opsDone + 1
    /\ pc' = "poll" /\ result' = "none" /\ errKind' = "none"
    /\ trace' = <<>>
    /\ lastReason' = "none" /\ elapsed' = 0 /\ slept' = 0
    /\ observed' = NoQueue /\ cancelled' = FALSE
    /\ UNCHANGED <<d, desired>>
    /\ UNCHANGED gone

\* between two entry points the caller declares other attributes; the
\* ResourceData handed to the next entry point carries them
CallerDeclares ==
    /\ Ready /\ d.id # NoId
    /\ \E want \in DesiredSets \ {desired} :
        /\ desired' = want
        /\ d' = [id |-> d.id, name |-> want.name,
                 calling_party_name |-> want.calling_party_name,
                 enable_transcription |-> want.enable_transcription]
    /\ op' = "none" /\ pc' = "idle" /\ result' = "none" /\ errKind' = "none"
    /\ trace' = <<>>
    /\ lastReason' = "none" /\ elapsed' = 0 /\ slept' = 0
    /\ observed' = NoQueue /\ cancelled' = FALSE
    /\ UNCHANGED opsDone
    /\ UNCHANGED gone

\* updateSimpleRoutingQueue up to the call of readSimpleRoutingQueue
updateSimpleRoutingQueue ==
    /\ Ready /\ d.id # NoId
    /\ \E resp \in MutateResponses :
        LET nxt == AfterUpdate(resp)
        IN  /\ op' = "update" /\ opsDone' = opsDone + 1
            /\ trace' = <<Call("update", d.id, MutateStatus(resp), NoId, Absent)>>
            /\ pc' = nxt.pc /\ result' = nxt.result /\ errKind' = nxt.errKind
    /\ lastReason' = "none" /\ elapsed' = 0 /\ slept' = 0
    /\ observed' = NoQueue /\ cancelled' = FALSE
    /\ UNCHANGED <<d, desired>>
    /\ UNCHANGED gone

\* deleteSimpleRoutingQueue up to time.Sleep
deleteSimpleRoutingQueue ==
    /\ Ready /\ d.id # NoId
    /\ \E resp \in MutateResponses :
        LET nxt == AfterDelete(resp)
        IN  /\ op' = "delete" /\ opsDone' = opsDone + 1
            /\ trace' = <<Call("delete", d.id, MutateStatus(resp), NoId, Absent)>>
            /\ pc' = nxt.pc /\ result' = nxt.result /\ errKind' = nxt.errKind
    /\ lastReason' = "none" /\ elapsed' = 0 /\ slept' = 0
    /\ observed' = NoQueue /\ cancelled' = FALSE
    /\ UNCHANGED <<d, desired>>
    /\ UNCHANGED gone

\* DeleteSleep without the time.Sleep: the confirmation poll starts at once
DeleteSleep_NoSleep ==
    /\ pc = "grace"
    /\ slept' = 0
    /\ pc' = "poll" /\ elapsed' = 0
    /\ UNCHANGED <<d, desired, op, result, errKind, lastReason, trace, observed,
                   cancelled, opsDone>>
    /\ UNCHANGED gone

\* time.Sleep(5 * time.Second), then the confirmation poll starts
DeleteSleep ==
    /\ pc = "grace"
    /\ slept' = GracePeriod
    /\ pc' = "poll" /\ elapsed' = 0
    /\ UNCHANGED <<d, desired, op, result, errKind, lastReason, trace, observed,
                   cancelled, opsDone>>
    /\ UNCHANGED gone

\* ReadPoll whose poll does not look at the enclosing context
ReadPoll_IgnoresCtx ==
    /\ pc = "poll" /\ op \in {"create", "read", "update"}
    /\ \E resp \in ReadResponses, lat \in Latencies :
        LET out == ReadCheck(d, desired, resp)
            nxt == Engine(out, elapsed + lat, ReadCeiling)
        IN  /\ d' = out.rd
            /\ elapsed' = elapsed + lat
            /\ trace' = Append(trace, ReadCall(d.id, resp))
            /\ observed' = IF resp.err THEN observed ELSE resp.queue
            /\ lastReason' = IF out.kind = "retryable" THEN out.reason ELSE lastReason
            /\ pc' = nxt.pc /\ result' = nxt.result /\ errKind' = nxt.errKind
    /\ UNCHANGED <<desired, op, slept, cancelled, opsDone>>
    /\ UNCHANGED gone

\* one attempt of the poll of readSimpleRoutingQueue
ReadPoll ==
    /\ pc = "poll" /\ op \in {"create", "read", "update"} /\ ~cancelled
    /\ \E resp \in ReadResponses, lat \in Latencies :
        LET out == ReadCheck(d, desired, resp)
            nxt == Engine(out, elapsed + lat, ReadCeiling)
        IN  /\ d' = out.rd
            /\ elapsed' = elapsed + lat
            /\ trace' = Append(trace, ReadCall(d.id, resp))
            /\ observed' = IF resp.err THEN observed ELSE resp.queue
            /\ lastReason' = IF out.kind = "retryable" THEN out.reason ELSE lastReason
            /\ pc' = nxt.pc /\ result' = nxt.result /\ errKind' = nxt.errKind
    /\ UNCHANGED <<desired, op, slept, cancelled, opsDone>>
    /\ UNCHANGED gone

\* one attempt of the confirmation poll of deleteSimpleRoutingQueue
DeletePoll ==
    /\ pc = "poll" /\ op = "delete" /\ ~cancelled
    /\ \E resp \in ReadResponses, lat \in Latencies :
        LET out == DeleteCheck(resp)
            nxt == Engine(out, elapsed + lat, DeleteCeiling)
        IN  /\ elapsed' = elapsed + lat
            /\ trace' = Append(trace, ReadCall(d.id, resp))
            /\ observed' = IF resp.err THEN observed ELSE resp.queue
            /\ lastReason' = IF out.kind = "retryable" THEN out.reason ELSE lastReason
            /\ pc' = nxt.pc /\ result' = nxt.result /\ errKind' = nxt.errKind
            /\ gone' = IF nxt.result = "success" THEN gone \cup {d.id} ELSE gone
    /\ UNCHANGED <<d, desired, op, slept, cancelled, opsDone>>

\* the enclosing context is cancelled while the entry point waits or polls
Cancel ==
    /\ pc \in {"grace", "poll"} /\ ~cancelled
    /\ cancelled' = TRUE
    /\ UNCHANGED <<d, desired, op, pc, result, errKind, lastReason, elapsed,
                   slept, trace, observed, opsDone>>
    /\ UNCHANGED gone

\* a poll whose context is done returns without a further remote read
PollCancelled ==
    /\ pc = "poll" /\ cancelled
    /\ pc' = "done" /\ result' = "failure" /\ errKind' = "cancelled"
    /\ UNCHANGED <<d, desired, op, lastReason, elapsed, slept, trace, observed,
                   cancelled, opsDone>>
    /\ UNCHANGED gone

Next ==
    \/ CallerDeclares
    \/ createSimpleRoutingQueue
    \/ readSimpleRoutingQueue
    \/ updateSimpleRoutingQueue
    \/ deleteSimpleRoutingQueue
    \/ DeleteSleep
    \/ ReadPoll
    \/ DeletePoll
    \/ Cancel
    \/ PollCancelled

Spec == Init /\ [][Next]_vars

\* each remote call returns, the sleep ends and the poll notices a done
\* context: the steps of an entry point in progress are taken
Step == DeleteSleep \/ ReadPoll \/ DeletePoll \/ PollCancelled

LiveSpec == Init /\ [][Next]_vars /\ WF_vars(Step)

\* ------------------------------------------- reconciliation on its own
\* every local record against every payload: the function of
\* readSimpleRoutingQueue is applied twice to the same successful read
InitReconcile ==
    /\ d \in [id : Ids, name : Names, calling_party_name : CallingPartyNames,
              enable_transcription : Bools]
    /\ desired = Attrs(d)
    /\ observed \in Queues
    /\ op = "read" /\ pc = "reconcile" /\ result = "none" /\ errKind = "none"
    /\ lastReason = "none" /\ elapsed = 0 /\ slept = 0
    /\ trace = <<>> /\ cancelled = FALSE /\ opsDone = 0
    /\ gone = {}

Reconcile ==
    /\ pc \in {"reconcile", "reconciled_once"}
    /\ d' = ReadCheck(d, desired,
                      [queue |-> observed, respCode |-> 200, err |-> FALSE]).rd
    /\ pc' = IF pc = "reconcile" THEN "reconciled_once" ELSE "reconciled_twice"
    /\ UNCHANGED <<desired, op, result, errKind, lastReason, elapsed, slept,
                   trace, observed, cancelled, opsDone, gone>>

SpecReconcile == InitReconcile /\ [][Reconcile]_vars

\* ----------------------------------------------------------- properties
Last == trace[Len(trace)]
ReadPhase == op \in {"create", "read", "update"}
\* positions of the remote reads in the trace
ReadIdx == {i \in 1..Len(trace) : trace[i].call = "read"}
LastIsRead(status) == Len(trace) > 0 /\ Last.call = "read" /\ Last.status = status
\* the record the last read wrote agrees with what the caller declared
Consistent == observed.Name # Absent /\ Attrs(d) = desired

\* C1: Delete returns success only after a confirmation read, issued after the
\* successful delete call, returned not-found; a Delete whose last confirmation
\* read found the queue present, or whose ceiling elapsed without a not-found,
\* returns a failure, never success.
C1_DeleteSuccessOnlyAfterNotFound ==
    op = "delete" =>
      /\ result = "success" =>
           /\ Len(trace) >= 2
           /\ trace[1].call = "delete" /\ trace[1].status = "ok"
           /\ LastIsRead("notfound")
      /\ (pc = "done" /\ LastIsRead("ok")) => result = "failure"
      /\ (pc = "done" /\ elapsed >= DeleteCeiling /\ ~LastIsRead("notfound"))
           => result = "failure"

\* the queue is still observed present by the read that ends past the ceiling
C1_Witness ==
    /\ op = "delete" /\ pc = "done" /\ LastIsRead("ok")
    /\ elapsed >= DeleteCeiling /\ result = "failure"

\* C2: in the confirmation poll of Delete a read that finds the queue present
\* is retried: while the ceiling has not elapsed the poll goes on after it,
\* and a not-found after k such reads makes Delete return success.
C2_PresentIsRetried ==
    (op = "delete" /\ LastIsRead("ok") /\ elapsed < DeleteCeiling /\ ~cancelled)
      => pc = "poll"

\* C3: a Read whose every remote read returned not-found until the ceiling
\* elapsed returns the timeout failure with the not-found reason; the
\* identity stays bound and it never returns success.
C3_NotFoundUntilCeilingIsTimeout ==
    (ReadPhase /\ ReadIdx # {} /\ \A i \in ReadIdx : trace[i].status = "notfound")
      => /\ result # "success"
         /\ d.id # NoId
         /\ (pc = "done" /\ ~cancelled) =>
              /\ result = "failure" /\ errKind = "timeout"
              /\ lastReason = "read_notfound"
              /\ elapsed >= ReadCeiling

C3_Witness ==
    /\ op = "read" /\ pc = "done" /\ errKind = "timeout"
    /\ Len(trace) >= 2 /\ \A i \in ReadIdx : trace[i].status = "notfound"

\* C4: a not-found read never ends the poll of Read before the ceiling, and a
\* Read whose first k reads returned not-found and whose next attempt
\* succeeds (the read returns the queue and the consistency check passes)
\* returns success.
C4_NotFoundIsRetriedThenSuccess ==
    ReadPhase =>
      /\ (LastIsRead("notfound") /\ elapsed < ReadCeiling /\ ~cancelled) => pc = "poll"
      /\ (pc = "done" /\ LastIsRead("ok") /\ Consistent
          /\ \A i \in ReadIdx \ {Len(trace)} : trace[i].status = "notfound")
           => result = "success"

C4_Witness ==
    /\ op = "read" /\ result = "success" /\ Len(trace) = 3
    /\ trace[1].status = "notfound" /\ trace[2].status = "notfound"
    /\ trace[3].status = "ok"

\* C5: when Read (directly or as the tail of Create or Update) returns
\* success, the last remote read succeeded and every field present in its
\* payload has the payload's value in the local record.
C5_SuccessMeansReconciled ==
    (ReadPhase /\ result = "success") =>
      /\ LastIsRead("ok")
      /\ d.name = observed.Name
      /\ observed.CallingPartyName # Absent
           => d.calling_party_name = observed.CallingPartyName
      /\ observed.EnableTranscription # Absent
           => d.enable_transcription = observed.EnableTranscription

\* a create whose read came back with all three fields
C5_Witness ==
    /\ op = "create" /\ result = "success"
    /\ observed.CallingPartyName # Absent /\ observed.EnableTranscription # Absent
    /\ d.name = observed.Name

\* C6: after an Update that declares enable_transcription false, a poll whose
\* read reports the stale true does not return success; with true on the
\* first two reads success comes with the third read at the earliest, and the
\* local enable_transcription is then false.
C6_StaleReadsAreRetried ==
    (op = "update" /\ desired.enable_transcription = "false") =>
      /\ (LastIsRead("ok") /\ Last.et = "true") => result # "success"
      /\ (Len(trace) >= 3 /\ trace[2].status = "ok" /\ trace[2].et = "true"
          /\ trace[3].status = "ok" /\ trace[3].et = "true")
           => /\ result = "success" =>
                   Len(trace) >= 4 /\ d.enable_transcription = "false"
              /\ (Len(trace) = 4 /\ LastIsRead("ok") /\ Last.et = "false"
                  /\ Consistent) => result = "success"

C6_Witness ==
    /\ op = "update" /\ desired.enable_transcription = "false"
    /\ result = "success" /\ Len(trace) = 4
    /\ trace[2].status = "ok" /\ trace[2].et = "true"
    /\ trace[3].status = "ok" /\ trace[3].et = "true"
    /\ trace[4].et = "false" /\ d.enable_transcription = "false"

\* C7: a Create whose remote create call returned an error issued that call
\* once, issued no remote read, returned a failure and left the identity
\* absent.
C7_CreateErrorIsTerminal ==
    (op = "create" /\ trace[1].status = "error") =>
      /\ Len(trace) = 1 /\ trace[1].call = "create"
      /\ pc = "done" /\ result = "failure" /\ errKind = "create_failed"
      /\ d.id = NoId

C7_Witness ==
    op = "create" /\ Len(trace) = 1 /\ trace[1].status = "error" /\ pc = "done"

\* C8: a Create whose remote create call succeeded has bound the identity the
\* remote returned, every later call of that Create is a read keyed by that
\* identity, and what Create returns is what the read poll returned.
C8_CreateBindsIdThenReads ==
    (op = "create" /\ trace[1].status = "ok") =>
      /\ trace[1].ret \in Ids /\ d.id = trace[1].ret
      /\ \A i \in 2..Len(trace) : trace[i].call = "read" /\ trace[i].id = trace[1].ret
      /\ pc \in {"poll", "done"}
      /\ pc = "done" =>
           /\ errKind \in {"none", "read_failed", "timeout", "cancelled", "nil_name"}
           /\ result = "success" <=> (LastIsRead("ok") /\ Consistent)
           /\ errKind = "read_failed" <=> LastIsRead("error")

C8_Witness ==
    /\ op = "create" /\ pc = "done" /\ result = "success"
    /\ Len(trace) >= 3 /\ d.id = "Q-2"

\* C9: Update and Delete issue their mutation call once; when it returns an
\* error they return a failure, issue no remote read and leave the local
\* record as it was; an Update whose call succeeded returns what the read
\* poll returned.
C9_Inv ==
    op \in {"update", "delete"} =>
      /\ trace[1].call = op /\ trace[1].id = d.id
      /\ \A i \in 2..Len(trace) : trace[i].call = "read"
      /\ trace[1].status = "error" =>
           /\ Len(trace) = 1 /\ pc = "done" /\ result = "failure"
           /\ errKind = (IF op = "update" THEN "update_failed" ELSE "delete_failed")
      /\ (op = "update" /\ trace[1].status = "ok") =>
           /\ pc \in {"poll", "done"}
           /\ pc = "done" =>
                /\ errKind \in {"none", "read_failed", "timeout", "cancelled", "nil_name"}
                /\ result = "success" <=> (LastIsRead("ok") /\ Consistent)

C9_MutationOnceErrorTerminal ==
    /\ []C9_Inv
    /\ [][(op' \in {"update", "delete"} /\ opsDone' = opsDone + 1
           /\ trace'[1].status = "error") => d' = d]_vars

C9_Witness ==
    /\ op = "update" /\ trace[1].status = "error" /\ pc = "done"
    /\ result = "failure" /\ Attrs(d) = desired

\* C10: in the poll of Read a remote read error whose status is not not-found
\* ends the poll on that attempt with a failure, whatever is left of the
\* ceiling; no read follows it.
C10_OtherReadErrorIsTerminal ==
    ReadPhase =>
      /\ \A i \in ReadIdx : trace[i].status = "error" => i = Len(trace)
      /\ LastIsRead("error") =>
           pc = "done" /\ result = "failure" /\ errKind = "read_failed"

C10_Witness ==
    /\ ReadPhase /\ LastIsRead("error") /\ pc = "done"
    /\ elapsed + 2 * LatencyStep <= ReadCeiling

\* C11: in the confirmation poll of Delete a read error whose status is not
\* not-found is terminal: the poll ends on that attempt with a failure and no
\* read follows it.
C11_DeleteTransportErrorIsTerminal ==
    op = "delete" =>
      /\ \A i \in ReadIdx : trace[i].status = "error" => i = Len(trace)
      /\ LastIsRead("error") => pc = "done" /\ result = "failure"

\* C12: once the enclosing context is cancelled during a wait or a poll, the
\* entry point issues no further remote call and lets no more poll time pass,
\* and it returns the cancellation failure, never success.
C12_Inv ==
    cancelled =>
      /\ pc \in {"grace", "poll", "done"}
      /\ result # "success"
      /\ pc = "done" => result = "failure" /\ errKind = "cancelled"

C12_CancelStopsPoll ==
    /\ []C12_Inv
    /\ [][(cancelled /\ cancelled') => (trace' = trace /\ elapsed' = elapsed)]_vars

\* a poll that had already read twice is cancelled before its ceiling
C12_Witness ==
    /\ cancelled /\ pc = "done" /\ errKind = "cancelled"
    /\ Cardinality(ReadIdx) >= 2 /\ elapsed < ReadCeiling

ReadGotQueue ==
    /\ ReadPhase /\ pc = "poll"
    /\ Len(trace') = Len(trace) + 1
    /\ trace'[Len(trace')].call = "read" /\ trace'[Len(trace')].status = "ok"

\* C14: the reconciliation of a payload treats an absent field as unknown:
\* it goes through, the local value of each absent field (name,
\* calling_party_name, enable_transcription) stays what it was and each
\* present field takes the payload's value.
C14_AbsentFieldLeavesLocal ==
    [][ReadGotQueue =>
          /\ result' # "panic"
          /\ d'.name = (IF observed'.Name = Absent THEN d.name ELSE observed'.Name)
          /\ d'.calling_party_name =
               (IF observed'.CallingPartyName = Absent
                THEN d.calling_party_name ELSE observed'.CallingPartyName)
          /\ d'.enable_transcription =
               (IF observed'.EnableTranscription = Absent
                THEN d.enable_transcription ELSE observed'.EnableTranscription)]_vars

\* C15: reconciliation is idempotent: for every local record and every
\* payload the second copy-forward of the same payload changes nothing.
C15_ReconcileIdempotent ==
    [][pc = "reconciled_once" => d' = d]_vars

\* both copies were made and the first one changed the record
C15_Witness ==
    pc = "reconciled_twice" /\ Attrs(d) # desired /\ d.name = observed.Name

\* the failures whose message is written by the four entry points
SourceFailure ==
    /\ pc = "done" /\ result = "failure"
    /\ ErrSubject(errKind, lastReason) # "unknown"

\* C16: every failure an entry point returns is a failure with a cause, its
\* message carries the identity of the resource (whenever one is bound) and
\* names the operation that was attempted (the entry point or its read).
C16_FailureNamesIdentityAndOp ==
    /\ (pc = "done" /\ result = "failure") => errKind # "none"
    /\ SourceFailure =>
         /\ d.id # NoId => ErrSubject(errKind, lastReason) = "id"
         /\ ErrOp(errKind, lastReason) \in {op, "read"}

\* C17: the polls and the reconciliation only read the remote: the one call
\* of an entry point that is not a read is its own mutation call, issued
\* first; Read issues none, and after it every call is a read.
C17_PollsOnlyRead ==
    \A i \in 1..Len(trace) :
      trace[i].call # "read" =>
        /\ i = 1
        /\ op \in {"create", "update", "delete"} /\ trace[i].call = op

\* an Update whose poll kept observing other values than declared until the
\* ceiling
C17_Witness ==
    /\ op = "update" /\ pc = "done" /\ errKind = "timeout"
    /\ lastReason = "inconsistent" /\ Attrs(d) # desired
    /\ Cardinality(ReadIdx) >= 2

\* C18: the identity is absent until a Create succeeds, is set by that Create
\* to the identity the remote returned, and is not changed afterwards, whatever
\* Read, Update and Delete return; every read, update and delete call is
\* keyed by it.
C18_Inv ==
    /\ d.id = NoId =>
         /\ op \in {"none", "create"}
         /\ op = "create" => trace[1].status = "error"
    /\ \A i \in 1..Len(trace) :
         trace[i].call # "create" => (trace[i].id = d.id /\ d.id \in Ids)

C18_IdentitySetOnce ==
    /\ []C18_Inv
    /\ [][/\ d.id # NoId => d'.id = d.id
          /\ (d.id = NoId /\ d'.id # NoId) =>
               /\ op' = "create" /\ trace'[1].status = "ok"
               /\ d'.id = trace'[1].ret]_vars

\* a Read that timed out on not-found, a failed Update and a failed Delete
\* poll all left the identity of the Create in place
C18_Witness ==
    /\ d.id = "Q-2" /\ opsDone >= 2 /\ pc = "done" /\ result = "failure"
    /\ op \in {"read", "update", "delete"}
    /\ Cardinality(ReadIdx) >= 2

\* the ceiling of the poll of the entry point in progress
Ceiling == IF op = "delete" THEN DeleteCeiling ELSE ReadCeiling

\* a poll goes on only below its ceiling and every read it issued took time,
\* so it issues a bounded number of reads
C19_Bounded ==
    /\ pc = "poll" => elapsed < Ceiling
    /\ pc \in {"poll", "done"} => Cardinality(ReadIdx) * LatencyStep <= elapsed
    /\ elapsed < Ceiling + 2 * LatencyStep

\* C19: every invocation of an entry point returns: a wait or a poll in
\* progress ends, on success, on a terminal failure or when the ceiling has
\* elapsed, after a bounded number of reads.
C19_EveryInvocationReturns ==
    /\ []C19_Bounded
    /\ (pc \in {"grace", "poll"}) ~> (pc = "done")

\* a poll that retried up to its ceiling and returned
C19_Witness ==
    /\ pc = "done" /\ errKind = "timeout" /\ elapsed >= Ceiling
    /\ Cardinality(ReadIdx) >= 3

TypeOK ==
    /\ d.id \in Ids \cup {NoId}
    /\ Attrs(d) \in DesiredSets
    /\ desired \in DesiredSets
    /\ pc \in {"idle", "grace", "poll", "done"}
    /\ result \in {"none", "success", "failure", "panic"}
    /\ elapsed \in 0..(DeleteCeiling + 2 * LatencyStep)
====
